---- MODULE Spec2Model ----
(***************************************************************************)
(* The session and context module of the Linear extension (linear.ts, in   *)
(* two revisions: src/unnamed/part_000 with the OAuth/API-key choice in    *)
(* connect, src/unnamed/part_001 with OAuth only) and the command handlers *)
(* of src/src/extension.ts that write the context issue.                   *)
(*                                                                         *)
(* activate (extension.ts) awaits init before it registers any command, so *)
(* every other function runs after init; restart is the extension host     *)
(* loading the module anew, with the stores kept.                          *)
(*                                                                         *)
(* Every exported async function is one action.  What the collaborators    *)
(* answer (the authentication provider, the secret store, the workspace    *)
(* store, the Linear API, the user at a prompt) is drawn with \E; a call   *)
(* that raises is the outcome "throw".  Memento.get is a synchronous read  *)
(* of a value already in memory: it raises only when _storage itself is    *)
(* still undefined (TypeError).                                            *)
(***************************************************************************)
EXTENDS Integers, Sequences, FiniteSets, TLC

MaxIssues == 2
MaxKeys == 2
MaxTokens == 1
MaxComments == 2

Undefined == "undefined"
Null == "null"
Empty == ""

Issues == 1..MaxIssues
\* An issue's internal id (issue.id) and its human-readable identifier.
IdOf == [i \in Issues |-> "uuid-" \o ToString(i)]
IdentifierOf == [i \in Issues |-> "ISS-" \o ToString(i)]
Id(i) == IdOf[i]
Identifier(i) == IdentifierOf[i]
IssueIds == {Id(i) : i \in Issues}
IssueIdentifiers == {Identifier(i) : i \in Issues}
IssueRefs == IssueIds \cup IssueIdentifiers
ApiKeys == {"lin_api_" \o ToString(i) : i \in 1..MaxKeys}
AccessTokens == {"token-" \o ToString(i) : i \in 1..MaxTokens}

VARIABLES
  revision,          \* which revision of linear.ts is loaded
  _client,           \* let _client: LinearClient | null
  _secretStorage,    \* let _secretStorage: SecretStorage
  _storage,          \* let _storage: Memento
  secrets,           \* context.secrets: the value under "apiKey"
  workspaceState,    \* context.workspaceState: the value under "linearContextIssueId"
  providerSession,   \* the "linear" session of vscode.authentication
  last,              \* the last completed call: arguments, result, calls it made
  lifecycle,         \* history: "connected" after connect() = true, then "disconnected";
                     \* "restarted" from a restart through the init that follows it
  setBefore,         \* history, kept for a getContextIssue call: the id that the
                     \* call just before it persisted, if that call was a
                     \* setContextIssueId that returned true
  cmd,               \* the command handler of extension.ts that has just completed
  pending,           \* a connect() followed await by await: where it is suspended
                     \* and what its awaits have answered so far
  join               \* a getContextIssueWithDetails() followed await by await:
                     \* where it is suspended and which of the requests of its
                     \* Promise.all are still in flight

vars == <<revision, _client, _secretStorage, _storage, secrets, workspaceState,
          providerSession, last, lifecycle, setBefore, cmd, pending, join>>

Revisions == {"part_000", "part_001"}

(* ---------------------------------------------------------------------- *)
(* Values                                                                  *)
(* ---------------------------------------------------------------------- *)

NoClient == [auth |-> Null, cred |-> Undefined]
AccessTokenClient(t) == [auth |-> "accessToken", cred |-> t]
ApiKeyClient(k) == [auth |-> "apiKey", cred |-> k]

Truthy(s) == s # Undefined /\ s # Null /\ s # Empty
Bool(b) == IF b THEN "true" ELSE "false"

Remote(m, a) == [m |-> m, a |-> a]

\* A list-valued field of the detail bundle: an array, or undefined.
Array(nodes) == [type |-> "array", nodes |-> nodes]
NoArray == [type |-> "undefined", nodes |-> <<>>]

\* What issue.subscribers() and issue.comments() resolve to: a connection with
\* its nodes, or nothing (the code reads the nodes with `?.`).
Connection(nodes) == [type |-> "connection", nodes |-> nodes]
NoConnection == [type |-> "null", nodes |-> <<>>]

\* What the five dependent requests of getContextIssueWithDetails resolved to,
\* and the object it returned; these are their values for every other call.
NoAnswers ==
  [assignee |-> Undefined, creator |-> Undefined, team |-> Undefined,
   subscribers |-> NoConnection, comments |-> NoConnection]
NoBundle ==
  [issue |-> Null, assignee |-> Undefined, creator |-> Undefined, team |-> Undefined,
   subscribers |-> NoArray, comments |-> NoArray]

\* The record of a call before it has done anything.  gets are the keys it
\* read from the workspace store; payload is the success flag of the payload a
\* mutation of the remote answered with, if it answered.
Call(op, arg) ==
  [op |-> op, arg |-> arg, ret |-> Undefined, pre |-> _client,
   remote |-> <<>>, gets |-> <<>>, updates |-> <<>>, secret |-> <<>>,
   sessions |-> <<>>,
   ui |-> <<>>, raised |-> <<>>, escaped |-> FALSE,
   payload |-> Undefined, fetched |-> NoAnswers, bundle |-> NoBundle]

\* A command handler's run: the issue the user selected or created (chosen),
\* the message shown last, the module function called last and its result.
Command(name, chosen, message, called, ret) ==
  [name |-> name, chosen |-> chosen, message |-> message, called |-> called,
   ret |-> ret]

NoCommand == Command("none", Undefined, Undefined, Undefined, Undefined)

Outcomes == {"ok", "throw"}

\* What a call leaves behind besides its record: the fields of a run that are
\* the new module and store state.
Keep == [client |-> _client, secrets |-> secrets, session |-> providerSession,
         store |-> workspaceState]

Log(r) == [f \in DOMAIN r \ (DOMAIN Keep \cup {"cmd"}) |-> r[f]]

\* No connect() is suspended.  at: the await a connect() is suspended at, or
\* "returned"; pick, so, input, viewer, store: what its awaits answered; during:
\* the result of a disconnect() that returned while it was suspended; pre: the
\* client handle when it was called.
NoPending ==
  [at |-> "idle", pick |-> Undefined, so |-> Undefined,
   input |-> Undefined, viewer |-> Undefined, store |-> Undefined,
   during |-> "none", pre |-> NoClient]

Suspended == pending.at \notin {"idle", "returned"}

\* A call that returns while a connect() is suspended: a disconnect() leaves
\* its result in the history.
Noted(r) ==
  IF Suspended /\ r.op = "disconnect" THEN [pending EXCEPT !.during = r.ret]
  ELSE pending

\* No getContextIssueWithDetails() is suspended.  at: the await it is
\* suspended at ("issue", "Promise.all"), or "returned"; inflight: the dependent
\* requests issued and not yet settled; rejected: the first of them that
\* rejected; rest: the requests in flight when it rejected; left: the requests
\* in flight when the function returned.
NoJoin ==
  [at |-> "idle", inflight |-> {}, rejected |-> Undefined, rest |-> {}, left |-> {}]

\* The state a completed run r leaves: what it wrote, and its record.
Recorded(r, lc, command) ==
  /\ _client' = r.client
  /\ secrets' = r.secrets
  /\ providerSession' = r.session
  /\ workspaceState' = r.store
  /\ last' = Log(r)
  /\ lifecycle' = lc
  /\ setBefore' = IF /\ r.op = "getContextIssue"
                       /\ last.op = "setContextIssueId"
                       /\ last.ret = "true"
                    THEN last.arg[1] ELSE Undefined
  /\ cmd' = command
  /\ UNCHANGED revision

DoneWith(r, lc, command, p) ==
  /\ Recorded(r, lc, command)
  /\ pending' = p
  /\ UNCHANGED join

Done(r, lc, command) == DoneWith(r, lc, command, Noted(r))

(* ---------------------------------------------------------------------- *)
(* Module load                                                             *)
(* ---------------------------------------------------------------------- *)

Init ==
  /\ revision \in Revisions
  /\ _client = NoClient
  /\ _secretStorage = Undefined
  /\ _storage = Undefined
  /\ secrets \in ApiKeys \cup {Undefined}
  /\ workspaceState \in IssueIds \cup {Undefined}
  /\ providerSession \in AccessTokens \cup {Undefined}
  /\ last = Call("load", <<>>)
  /\ lifecycle = "none"
  /\ setBefore = Undefined
  /\ cmd = NoCommand
  /\ pending = NoPending
  /\ join = NoJoin

\* activate has run init: the storage handles are injected and the commands
\* are registered.
activated == _storage # Undefined

\* A restart that carries the client handle over.
restart_keepsClient ==
  /\ activated
  /\ _client' = _client
  /\ _secretStorage' = Undefined
  /\ _storage' = Undefined
  /\ last' = [Call("load", <<>>) EXCEPT !.pre = NoClient]
  /\ lifecycle' = "restarted"
  /\ setBefore' = Undefined
  /\ cmd' = NoCommand
  /\ pending' = NoPending
  /\ join' = NoJoin
  /\ UNCHANGED <<revision, secrets, workspaceState, providerSession>>

\* The extension host starts again: the module's variables are as declared, the
\* secret store, the workspace store and the provider's session persist.
restart ==
  /\ activated
  /\ _client' = NoClient
  /\ _secretStorage' = Undefined
  /\ _storage' = Undefined
  /\ last' = [Call("load", <<>>) EXCEPT !.pre = NoClient]
  /\ lifecycle' = "restarted"
  /\ setBefore' = Undefined
  /\ cmd' = NoCommand
  /\ pending' = NoPending
  /\ join' = NoJoin
  /\ UNCHANGED <<revision, secrets, workspaceState, providerSession>>

(* ---------------------------------------------------------------------- *)
(* init                                                                    *)
(* ---------------------------------------------------------------------- *)

\* init with the stored API key consulted before the OAuth session.
initRun_keyFirst(so, ko) ==
  LET c == [Call("init", <<>>) EXCEPT !.secret = <<"get">>]
      c1 == [c EXCEPT !.sessions = <<"createIfNone:false">>]
      session == providerSession
      apiKey == secrets
  IN  IF ko = "throw"
        THEN [c EXCEPT !.ret = "false", !.raised = <<"get">>] @@ Keep
      ELSE IF Truthy(apiKey)
        THEN [c EXCEPT !.ret = "true"] @@ [Keep EXCEPT !.client = ApiKeyClient(apiKey)]
      ELSE IF so = "throw"
        THEN [c1 EXCEPT !.ret = "false", !.raised = <<"getSession">>] @@ Keep
      ELSE IF Truthy(session)
        THEN [c1 EXCEPT !.ret = "true"]
               @@ [Keep EXCEPT !.client = AccessTokenClient(session)]
      ELSE [c1 EXCEPT !.ret = "false"] @@ Keep

\* init whose API-key branch builds the client and then falls through to
\* the final return false.
initRun_fallsThrough(so, ko) ==
  LET c == [Call("init", <<>>) EXCEPT !.sessions = <<"createIfNone:false">>]
      session == providerSession
      apiKey == secrets
  IN  IF so = "throw"
        THEN [c EXCEPT !.ret = "false", !.raised = <<"getSession">>] @@ Keep
      ELSE IF Truthy(session)
        THEN [c EXCEPT !.ret = "true"]
               @@ [Keep EXCEPT !.client = AccessTokenClient(session)]
      ELSE IF ko = "throw"
        THEN [c EXCEPT !.ret = "false", !.secret = <<"get">>, !.raised = <<"get">>]
               @@ Keep
      ELSE IF Truthy(apiKey)
        THEN [c EXCEPT !.ret = "false", !.secret = <<"get">>]
               @@ [Keep EXCEPT !.client = ApiKeyClient(apiKey)]
      ELSE [c EXCEPT !.ret = "false", !.secret = <<"get">>] @@ Keep

\* What init computes from the provider's answer (so) and the secret store's (ko).
initRun(so, ko) ==
  LET c == [Call("init", <<>>) EXCEPT !.sessions = <<"createIfNone:false">>]
      session == providerSession
      apiKey == secrets
  IN  IF so = "throw"
        THEN [c EXCEPT !.ret = "false", !.raised = <<"getSession">>] @@ Keep
      ELSE IF Truthy(session)
        THEN [c EXCEPT !.ret = "true"]
               @@ [Keep EXCEPT !.client = AccessTokenClient(session)]
      ELSE IF ko = "throw"
        THEN [c EXCEPT !.ret = "false", !.secret = <<"get">>, !.raised = <<"get">>]
               @@ Keep
      ELSE IF Truthy(apiKey)
        THEN [c EXCEPT !.ret = "true", !.secret = <<"get">>]
               @@ [Keep EXCEPT !.client = ApiKeyClient(apiKey)]
      ELSE [c EXCEPT !.ret = "false", !.secret = <<"get">>] @@ Keep

init ==
  /\ ~activated
  /\ \E r \in {initRun(so, ko) : so \in Outcomes, ko \in Outcomes} :
       /\ _secretStorage' = "context.secrets"
       /\ _storage' = "context.workspaceState"
       /\ Done(r, lifecycle, NoCommand)

(* ---------------------------------------------------------------------- *)
(* connect                                                                 *)
(* ---------------------------------------------------------------------- *)

SessionOutcomes == {"session", "none", "throw"}
PickOutcomes == {"Sign in with OAuth", "Use API Key", Undefined, "throw"}
InputOutcomes == ApiKeys \cup {Undefined, Empty, "throw"}

\* The OAuth path returning true without building the client.
oauthRun_noAdopt(c, so, tok) ==
  LET c1 == [c EXCEPT !.sessions = <<"createIfNone:true">>]
      session == IF Truthy(providerSession) THEN providerSession ELSE tok
  IN  IF so = "throw"
        THEN [c1 EXCEPT !.ret = "false", !.raised = <<"getSession">>] @@ Keep
      ELSE IF so = "none"
        THEN [c1 EXCEPT !.ret = "false", !.ui = Append(@, "showErrorMessage")] @@ Keep
      ELSE [c1 EXCEPT !.ret = "true"] @@ [Keep EXCEPT !.session = session]

\* The OAuth path that deletes the stored API key once it has a session.
oauthRun_clearsKey(c, so, tok) ==
  LET c1 == [c EXCEPT !.sessions = <<"createIfNone:true">>]
      session == IF Truthy(providerSession) THEN providerSession ELSE tok
  IN  IF so = "throw"
        THEN [c1 EXCEPT !.ret = "false", !.raised = <<"getSession">>] @@ Keep
      ELSE IF so = "none"
        THEN [c1 EXCEPT !.ret = "false", !.ui = Append(@, "showErrorMessage")] @@ Keep
      ELSE [c1 EXCEPT !.ret = "true", !.secret = <<"delete">>]
             @@ [Keep EXCEPT !.client = AccessTokenClient(session), !.session = session,
                             !.secrets = Undefined]

\* getSession(..., { createIfNone: true }) and what follows it.  An existing
\* session is returned as it is; otherwise the provider creates the session
\* tok once the user has consented.
oauthRun(c, so, tok) ==
  LET c1 == [c EXCEPT !.sessions = <<"createIfNone:true">>]
      session == IF Truthy(providerSession) THEN providerSession ELSE tok
  IN  IF so = "throw"
        THEN [c1 EXCEPT !.ret = "false", !.raised = <<"getSession">>] @@ Keep
      ELSE IF so = "none"
        THEN [c1 EXCEPT !.ret = "false", !.ui = Append(@, "showErrorMessage")] @@ Keep
      ELSE [c1 EXCEPT !.ret = "true"]
             @@ [Keep EXCEPT !.client = AccessTokenClient(session), !.session = session]

\* The manual API key entry that stores the key before it validates it.
apiKeyRun_storesFirst(c, input, viewer, store) ==
  LET c1 == [c EXCEPT !.ui = Append(@, "showInputBox")]
      apiKey == input
      c2 == [c1 EXCEPT !.secret = <<"store">>]
      c3 == [c2 EXCEPT !.remote = <<Remote("viewer", apiKey)>>]
      invalid(cc, what) ==
        [cc EXCEPT !.ret = "false", !.raised = <<what>>,
                   !.ui = Append(@, "showErrorMessage")]
  IN  IF input = "throw"
        THEN [c1 EXCEPT !.ret = "false", !.raised = <<"showInputBox">>] @@ Keep
      ELSE IF ~Truthy(apiKey)
        THEN [c1 EXCEPT !.ret = "false"] @@ Keep
      ELSE IF _secretStorage = Undefined
        THEN invalid(c1, "store") @@ Keep
      ELSE IF store = "throw"
        THEN invalid(c2, "store") @@ Keep
      ELSE IF viewer = "throw"
        THEN invalid(c3, "viewer") @@ [Keep EXCEPT !.secrets = apiKey]
      ELSE [c3 EXCEPT !.ret = "true"]
             @@ [Keep EXCEPT !.client = ApiKeyClient(apiKey), !.secrets = apiKey]

\* The manual API key entry that adopts testClient as soon as it is validated,
\* before the key is stored.
apiKeyRun_adoptsFirst(c, input, viewer, store) ==
  LET c1 == [c EXCEPT !.ui = Append(@, "showInputBox")]
      apiKey == input
      c2 == [c1 EXCEPT !.remote = <<Remote("viewer", apiKey)>>]
      invalid(cc, what) ==
        [cc EXCEPT !.ret = "false", !.raised = <<what>>,
                   !.ui = Append(@, "showErrorMessage")]
  IN  IF input = "throw"
        THEN [c1 EXCEPT !.ret = "false", !.raised = <<"showInputBox">>] @@ Keep
      ELSE IF ~Truthy(apiKey)
        THEN [c1 EXCEPT !.ret = "false"] @@ Keep
      ELSE IF viewer = "throw"
        THEN invalid(c2, "viewer") @@ Keep
      ELSE IF _secretStorage = Undefined
        THEN invalid(c2, "store") @@ [Keep EXCEPT !.client = ApiKeyClient(apiKey)]
      ELSE IF store = "throw"
        THEN invalid([c2 EXCEPT !.secret = <<"store">>], "store")
               @@ [Keep EXCEPT !.client = ApiKeyClient(apiKey)]
      ELSE [c2 EXCEPT !.ret = "true", !.secret = <<"store">>]
             @@ [Keep EXCEPT !.client = ApiKeyClient(apiKey), !.secrets = apiKey]

\* The manual API key entry that does not wait for the store to complete: a
\* store that fails goes unnoticed and the client is adopted all the same.
apiKeyRun_storeUnawaited(c, input, viewer, store) ==
  LET c1 == [c EXCEPT !.ui = Append(@, "showInputBox")]
      apiKey == input
      c2 == [c1 EXCEPT !.remote = <<Remote("viewer", apiKey)>>]
      invalid(cc, what) ==
        [cc EXCEPT !.ret = "false", !.raised = <<what>>,
                   !.ui = Append(@, "showErrorMessage")] @@ Keep
  IN  IF input = "throw"
        THEN [c1 EXCEPT !.ret = "false", !.raised = <<"showInputBox">>] @@ Keep
      ELSE IF ~Truthy(apiKey)
        THEN [c1 EXCEPT !.ret = "false"] @@ Keep
      ELSE IF viewer = "throw"
        THEN invalid(c2, "viewer")
      ELSE IF _secretStorage = Undefined
        THEN invalid(c2, "store")
      ELSE IF store = "throw"
        THEN [c2 EXCEPT !.ret = "true", !.secret = <<"store">>]
               @@ [Keep EXCEPT !.client = ApiKeyClient(apiKey)]
      ELSE [c2 EXCEPT !.ret = "true", !.secret = <<"store">>]
             @@ [Keep EXCEPT !.client = ApiKeyClient(apiKey), !.secrets = apiKey]

\* The manual API key entry: prompt, validate with testClient.viewer, store, adopt.
apiKeyRun(c, input, viewer, store) ==
  LET c1 == [c EXCEPT !.ui = Append(@, "showInputBox")]
      apiKey == input
      c2 == [c1 EXCEPT !.remote = <<Remote("viewer", apiKey)>>]
      invalid(cc, what) ==
        [cc EXCEPT !.ret = "false", !.raised = <<what>>,
                   !.ui = Append(@, "showErrorMessage")] @@ Keep
  IN  IF input = "throw"
        THEN [c1 EXCEPT !.ret = "false", !.raised = <<"showInputBox">>] @@ Keep
      ELSE IF ~Truthy(apiKey)
        THEN [c1 EXCEPT !.ret = "false"] @@ Keep
      ELSE IF viewer = "throw"
        THEN invalid(c2, "viewer")
      ELSE IF _secretStorage = Undefined
        THEN invalid(c2, "store")
      ELSE IF store = "throw"
        THEN invalid([c2 EXCEPT !.secret = <<"store">>], "store")
      ELSE [c2 EXCEPT !.ret = "true", !.secret = <<"store">>]
             @@ [Keep EXCEPT !.client = ApiKeyClient(apiKey), !.secrets = apiKey]

\* connect() that drops the active client when the method prompt is dismissed.
connectRun_resetsOnCancel(pick, so, tok, input, viewer, store) ==
  LET c == [Call("connect", <<>>) EXCEPT !.ui = <<"showQuickPick">>]
      authMethod == pick
  IN  IF pick = "throw"
        THEN [c EXCEPT !.ret = "false", !.raised = <<"showQuickPick">>] @@ Keep
      ELSE IF ~Truthy(authMethod)
        THEN [c EXCEPT !.ret = "false"] @@ [Keep EXCEPT !.client = NoClient]
      ELSE IF authMethod = "Sign in with OAuth"
        THEN oauthRun(c, so, tok)
      ELSE apiKeyRun(c, input, viewer, store)

connectRun(pick, so, tok, input, viewer, store) ==
  LET c == [Call("connect", <<>>) EXCEPT !.ui = <<"showQuickPick">>]
      authMethod == pick
  IN  IF pick = "throw"
        THEN [c EXCEPT !.ret = "false", !.raised = <<"showQuickPick">>] @@ Keep
      ELSE IF ~Truthy(authMethod)
        THEN [c EXCEPT !.ret = "false"] @@ Keep
      ELSE IF authMethod = "Sign in with OAuth"
        THEN oauthRun(c, so, tok)
      ELSE apiKeyRun(c, input, viewer, store)

connectRun_001(so, tok) == oauthRun(Call("connect", <<>>), so, tok)

Connected(r) ==
  /\ activated
  /\ Done(r, IF r.ret = "true" THEN "connected" ELSE "none", NoCommand)
  /\ UNCHANGED <<_secretStorage, _storage>>

\* The answers connect can meet: <<pick, so, tok, input, viewer, store>>, without
\* the combinations that differ only in the answer of a call that is never made.
AnyToken == CHOOSE t \in AccessTokens : TRUE
ConnectEnv ==
  {<<pick, "throw", AnyToken, Undefined, "throw", "throw">> :
     pick \in {Undefined, "throw"}}
  \cup {<<"Sign in with OAuth", so, tok, Undefined, "throw", "throw">> :
          so \in SessionOutcomes, tok \in AccessTokens}
  \cup {<<"Use API Key", "throw", AnyToken, input, "throw", "throw">> :
          input \in InputOutcomes}
  \cup {<<"Use API Key", "throw", AnyToken, input, "ok", store>> :
          input \in ApiKeys, store \in Outcomes}

connect ==
  /\ revision = "part_000"
  /\ \E r \in {connectRun(e[1], e[2], e[3], e[4], e[5], e[6]) : e \in ConnectEnv} :
       Connected(r)

connect_001 ==
  /\ revision = "part_001"
  /\ \E r \in {connectRun_001(so, tok) : so \in SessionOutcomes, tok \in AccessTokens} :
       Connected(r)

(* ---------------------------------------------------------------------- *)
(* connect, await by await.  Between two awaits connect runs without       *)
(* interruption; while it is suspended at one, other calls can run.  What  *)
(* it reads and writes (the provider's session, the secret store, _client) *)
(* it reads and writes when its last await answers; the key store is taken *)
(* to land when `await _secretStorage.store` answers.                      *)
(* ---------------------------------------------------------------------- *)

\* The first await of connect in the loaded revision.
FirstAwait == IF revision = "part_000" THEN "showQuickPick" ELSE "getSession"

\* What the await at can answer.
AnswersAt(at) ==
  IF at = "showQuickPick" THEN PickOutcomes
  ELSE IF at = "getSession" THEN SessionOutcomes
  ELSE IF at = "showInputBox" THEN InputOutcomes
  ELSE Outcomes

\* The field of pending that keeps the answer of the await at.
AnswerOf(at) ==
  IF at = "showQuickPick" THEN "pick"
  ELSE IF at = "getSession" THEN "so"
  ELSE IF at = "showInputBox" THEN "input"
  ELSE at

\* The await connect reaches next once the await at has answered, or
\* "returned" when it returns without another await.
NextAwait(at, answer) ==
  IF at = "showQuickPick"
    THEN IF answer = "Sign in with OAuth" THEN "getSession"
         ELSE IF answer = "Use API Key" THEN "showInputBox"
         ELSE "returned"
  ELSE IF at = "showInputBox"
    THEN IF answer \in ApiKeys THEN "viewer" ELSE "returned"
  ELSE IF at = "viewer"
    THEN IF answer = "ok" THEN "store" ELSE "returned"
  ELSE "returned"

\* A connect that gives up when a disconnect() has returned true meanwhile.
Resumed_cancelled(p, tok) ==
  LET r == IF revision = "part_000"
             THEN connectRun(p.pick, p.so, tok, p.input, p.viewer, p.store)
             ELSE connectRun_001(p.so, tok)
  IN  IF p.during = "true"
        THEN [Call("connect", <<>>) EXCEPT !.ret = "false", !.pre = p.pre] @@ Keep
        ELSE [r EXCEPT !.pre = p.pre]

\* The run of a connect() whose awaits answered as p says, completing in the
\* current state.
Resumed(p, tok) ==
  LET r == IF revision = "part_000"
             THEN connectRun(p.pick, p.so, tok, p.input, p.viewer, p.store)
             ELSE connectRun_001(p.so, tok)
  IN  [r EXCEPT !.pre = p.pre]

\* connect() is called and runs up to its first await.
connectBegin ==
  /\ activated
  /\ ~Suspended
  /\ pending' = [NoPending EXCEPT !.at = FirstAwait, !.pre = _client]
  /\ UNCHANGED <<revision, _client, _secretStorage, _storage, secrets,
                 workspaceState, providerSession, last, lifecycle, setBefore, cmd,
                 join>>

\* The await connect() is suspended at answers and connect() runs to its next await.
connectResume ==
  /\ Suspended
  /\ \E answer \in AnswersAt(pending.at) :
       /\ NextAwait(pending.at, answer) # "returned"
       /\ pending' = [pending EXCEPT ![AnswerOf(pending.at)] = answer,
                                     !.at = NextAwait(pending.at, answer)]
  /\ UNCHANGED <<revision, _client, _secretStorage, _storage, secrets,
                 workspaceState, providerSession, last, lifecycle, setBefore, cmd,
                 join>>

\* The await connect() is suspended at answers and connect() runs to its return.
connectReturn ==
  /\ Suspended
  /\ \E answer \in AnswersAt(pending.at), tok \in AccessTokens :
       /\ NextAwait(pending.at, answer) = "returned"
       /\ LET p == [pending EXCEPT ![AnswerOf(pending.at)] = answer,
                                   !.at = "returned"]
          IN  \E r \in {Resumed(p, tok)} :
                DoneWith(r, IF r.ret = "true" THEN "connected" ELSE "none",
                         NoCommand, p)
  /\ UNCHANGED <<_secretStorage, _storage>>

(* ---------------------------------------------------------------------- *)
(* disconnect                                                              *)
(* ---------------------------------------------------------------------- *)

\* _secretStorage.delete("apiKey"): a TypeError while _secretStorage is undefined.
deleteRaises(del) == _secretStorage = Undefined \/ del = "throw"

deleteLog(c) ==
  IF _secretStorage = Undefined THEN c ELSE [c EXCEPT !.secret = <<"delete">>]

\* disconnect without the inner try: a failed session lookup or message
\* reaches the outer catch.
disconnectRun_lookupEscapes(del, so, msg) ==
  LET c == deleteLog(Call("disconnect", <<>>))
      c1 == [c EXCEPT !.sessions = <<"createIfNone:false">>]
      session == providerSession
      done(cc) == [cc EXCEPT !.ret = "true"]
                    @@ [Keep EXCEPT !.client = NoClient, !.secrets = Undefined]
      failed(cc, what) == [cc EXCEPT !.ret = "false", !.raised = <<what>>]
                            @@ [Keep EXCEPT !.secrets = Undefined]
  IN  IF deleteRaises(del)
        THEN [c EXCEPT !.ret = "false", !.raised = <<"delete">>] @@ Keep
      ELSE IF so = "throw"
        THEN failed(c1, "getSession")
      ELSE IF ~Truthy(session)
        THEN done(c1)
      ELSE IF msg = "throw"
        THEN failed([c1 EXCEPT !.ui = <<"showInformationMessage">>],
                    "showInformationMessage")
      ELSE done([c1 EXCEPT !.ui = <<"showInformationMessage">>])

\* disconnect that also forgets the context issue.
disconnectRun_clearsContext(del, so, msg) ==
  LET c == deleteLog(Call("disconnect", <<>>))
      c1 == [c EXCEPT !.sessions = <<"createIfNone:false">>]
      session == providerSession
      c2 == IF so = "throw"
              THEN [c1 EXCEPT !.raised = <<"getSession">>]
            ELSE IF ~Truthy(session)
              THEN c1
            ELSE IF msg = "throw"
              THEN [c1 EXCEPT !.ui = <<"showInformationMessage">>,
                              !.raised = <<"showInformationMessage">>]
            ELSE [c1 EXCEPT !.ui = <<"showInformationMessage">>]
  IN  IF deleteRaises(del)
        THEN [c EXCEPT !.ret = "false", !.raised = <<"delete">>] @@ Keep
      ELSE [c2 EXCEPT !.ret = "true"]
             @@ [Keep EXCEPT !.client = NoClient, !.secrets = Undefined,
                             !.store = Undefined]

\* del, so, msg: the outcomes of the delete, the session lookup, the message.
disconnectRun(del, so, msg) ==
  LET c == deleteLog(Call("disconnect", <<>>))
      c1 == [c EXCEPT !.sessions = <<"createIfNone:false">>]
      session == providerSession
      c2 == IF so = "throw"
              THEN [c1 EXCEPT !.raised = <<"getSession">>]
            ELSE IF ~Truthy(session)
              THEN c1
            ELSE IF msg = "throw"
              THEN [c1 EXCEPT !.ui = <<"showInformationMessage">>,
                              !.raised = <<"showInformationMessage">>]
            ELSE [c1 EXCEPT !.ui = <<"showInformationMessage">>]
  IN  IF deleteRaises(del)
        THEN [c EXCEPT !.ret = "false", !.raised = <<"delete">>] @@ Keep
      ELSE [c2 EXCEPT !.ret = "true"]
             @@ [Keep EXCEPT !.client = NoClient, !.secrets = Undefined]

disconnectRun_001(del) ==
  LET c == deleteLog(Call("disconnect", <<>>))
  IN  IF deleteRaises(del)
        THEN [c EXCEPT !.ret = "false", !.raised = <<"delete">>] @@ Keep
      ELSE [c EXCEPT !.ret = "true"]
             @@ [Keep EXCEPT !.client = NoClient, !.secrets = Undefined]

Disconnected(r) ==
  /\ activated
  /\ Done(r, IF lifecycle \in {"connected", "disconnected"}
               THEN "disconnected" ELSE "none", NoCommand)
  /\ UNCHANGED <<_secretStorage, _storage>>

disconnect ==
  /\ revision = "part_000"
  /\ \E r \in {disconnectRun(del, so, msg) :
                 del \in Outcomes, so \in Outcomes, msg \in Outcomes} :
       Disconnected(r)

disconnect_001 ==
  /\ revision = "part_001"
  /\ \E r \in {disconnectRun_001(del) : del \in Outcomes} : Disconnected(r)

(* ---------------------------------------------------------------------- *)
(* Read-only pass-throughs                                                 *)
(* ---------------------------------------------------------------------- *)

Teams == {"team-1"}
FetchOutcomes == {"found", "missing", "throw"}

\* The issue a reference (internal id or human-readable identifier) names.
Resolve(ref) ==
  IF ref \in IssueRefs
    THEN Id(CHOOSE i \in Issues : ref \in {Id(i), Identifier(i)})
    ELSE Null

\* The value _client.issue(ref) resolves to when it does not raise.
Fetched(ref, o) == IF o = "found" THEN Resolve(ref) ELSE Null

getMyIssuesRun(o1, o2) ==
  LET c == Call("getMyIssues", <<>>)
      viewer == Remote("viewer", Empty)
      assignedIssues == Remote("assignedIssues", Empty)
  IN  IF _client = NoClient
        THEN [c EXCEPT !.ret = Null] @@ Keep
      ELSE IF o1 = "throw"
        THEN [c EXCEPT !.ret = Null, !.remote = <<viewer>>, !.raised = <<"viewer">>]
               @@ Keep
      ELSE IF o2 = "throw"
        THEN [c EXCEPT !.ret = Null, !.remote = <<viewer, assignedIssues>>,
                       !.raised = <<"assignedIssues">>] @@ Keep
      ELSE [c EXCEPT !.ret = "nodes", !.remote = <<viewer, assignedIssues>>] @@ Keep

getMyTeamsRun(o1, o2) ==
  LET c == Call("getMyTeams", <<>>)
      viewer == Remote("viewer", Empty)
      teams == Remote("teams", Empty)
  IN  IF _client = NoClient
        THEN [c EXCEPT !.ret = Null] @@ Keep
      ELSE IF o1 = "throw"
        THEN [c EXCEPT !.ret = Null, !.remote = <<viewer>>, !.raised = <<"viewer">>]
               @@ Keep
      ELSE IF o2 = "throw"
        THEN [c EXCEPT !.ret = Null, !.remote = <<viewer, teams>>,
                       !.raised = <<"teams">>] @@ Keep
      ELSE [c EXCEPT !.ret = "nodes", !.remote = <<viewer, teams>>] @@ Keep

getIssueByIdentifierRun(identifier, o) ==
  LET c == Call("getIssueByIdentifier", <<identifier>>)
      call == Remote("issue", identifier)
  IN  IF _client = NoClient
        THEN [c EXCEPT !.ret = Null] @@ Keep
      ELSE IF o = "throw"
        THEN [c EXCEPT !.ret = Null, !.remote = <<call>>, !.raised = <<"issue">>]
               @@ Keep
      ELSE [c EXCEPT !.ret = Fetched(identifier, o), !.remote = <<call>>] @@ Keep

getWorkflowStatesRun(o) ==
  LET c == Call("getWorkflowStates", <<>>)
      call == Remote("workflowStates", Empty)
  IN  IF _client = NoClient
        THEN [c EXCEPT !.ret = Null] @@ Keep
      ELSE IF o = "throw"
        THEN [c EXCEPT !.ret = Null, !.remote = <<call>>,
                       !.raised = <<"workflowStates">>] @@ Keep
      ELSE [c EXCEPT !.ret = "nodes", !.remote = <<call>>] @@ Keep

getAvailablePrioritiesRun(o) ==
  LET c == Call("getAvailablePriorities", <<>>)
      call == Remote("issuePriorityValues", Empty)
  IN  IF _client = NoClient
        THEN [c EXCEPT !.ret = Null] @@ Keep
      ELSE IF o = "throw"
        THEN [c EXCEPT !.ret = Null, !.remote = <<call>>,
                       !.raised = <<"issuePriorityValues">>] @@ Keep
      ELSE [c EXCEPT !.ret = "values", !.remote = <<call>>] @@ Keep

\* getTeamMembers without the _client test (its body never uses _client).
getTeamMembersRun_unguarded(team, o) ==
  LET c == Call("getTeamMembers", <<team>>)
      call == Remote("members", team)
  IN  IF o = "throw"
        THEN [c EXCEPT !.ret = Null, !.remote = <<call>>, !.raised = <<"members">>]
               @@ Keep
      ELSE [c EXCEPT !.ret = "nodes", !.remote = <<call>>] @@ Keep

getTeamMembersRun(team, o) ==
  LET c == Call("getTeamMembers", <<team>>)
      call == Remote("members", team)
  IN  IF _client = NoClient
        THEN [c EXCEPT !.ret = Null] @@ Keep
      ELSE IF o = "throw"
        THEN [c EXCEPT !.ret = Null, !.remote = <<call>>, !.raised = <<"members">>]
               @@ Keep
      ELSE [c EXCEPT !.ret = "nodes", !.remote = <<call>>] @@ Keep

\* The history once a call other than init, connect and disconnect has returned.
Since(lc) == IF lc = "restarted" THEN "none" ELSE lc

\* The completion of a call made outside connect and disconnect.
Returned(r) ==
  /\ activated
  /\ Done(r, Since(lifecycle), NoCommand)
  /\ UNCHANGED <<_secretStorage, _storage>>

getMyIssues ==
  \E r \in {getMyIssuesRun(o1, o2) : o1 \in Outcomes, o2 \in Outcomes} : Returned(r)

getMyTeams ==
  \E r \in {getMyTeamsRun(o1, o2) : o1 \in Outcomes, o2 \in Outcomes} : Returned(r)

getIssueByIdentifier ==
  \E r \in {getIssueByIdentifierRun(identifier, o) :
               identifier \in IssueRefs \cup {"NOPE-0"}, o \in FetchOutcomes} :
    Returned(r)

getWorkflowStates ==
  \E r \in {getWorkflowStatesRun(o) : o \in Outcomes} : Returned(r)

getAvailablePriorities ==
  \E r \in {getAvailablePrioritiesRun(o) : o \in Outcomes} : Returned(r)

getTeamMembers ==
  \E r \in {getTeamMembersRun(team, o) : team \in Teams, o \in Outcomes} : Returned(r)

(* ---------------------------------------------------------------------- *)
(* The context issue                                                       *)
(* ---------------------------------------------------------------------- *)

PayloadOutcomes == {"success", "failure", "throw"}

\* setContextIssueId with the update outside the try: a failing update leaves
\* the function as an exception.
setContextIssueIdRun_updateOutsideTry(issueId, o) ==
  LET c == Call("setContextIssueId", <<issueId>>)
  IN  IF ~Truthy(issueId)
        THEN [c EXCEPT !.ret = "false"] @@ Keep
      ELSE IF _storage = Undefined
        THEN [c EXCEPT !.raised = <<"update">>, !.escaped = TRUE] @@ Keep
      ELSE IF o = "throw"
        THEN [c EXCEPT !.updates = <<issueId>>, !.raised = <<"update">>,
                       !.escaped = TRUE] @@ Keep
      ELSE [c EXCEPT !.ret = "true", !.updates = <<issueId>>]
             @@ [Keep EXCEPT !.store = issueId]

\* setContextIssueId without the test of its argument.
setContextIssueIdRun_unvalidated(issueId, o) ==
  LET c == Call("setContextIssueId", <<issueId>>)
  IN  IF _storage = Undefined
        THEN [c EXCEPT !.ret = "false", !.raised = <<"update">>] @@ Keep
      ELSE IF o = "throw"
        THEN [c EXCEPT !.ret = "false", !.updates = <<issueId>>,
                       !.raised = <<"update">>] @@ Keep
      ELSE [c EXCEPT !.ret = "true", !.updates = <<issueId>>]
             @@ [Keep EXCEPT !.store = issueId]

\* setContextIssueId that writes under another key than the one read back.
setContextIssueIdRun_otherKey(issueId, o) ==
  LET c == Call("setContextIssueId", <<issueId>>)
  IN  IF ~Truthy(issueId)
        THEN [c EXCEPT !.ret = "false"] @@ Keep
      ELSE IF _storage = Undefined
        THEN [c EXCEPT !.ret = "false", !.raised = <<"update">>] @@ Keep
      ELSE IF o = "throw"
        THEN [c EXCEPT !.ret = "false", !.updates = <<issueId>>,
                       !.raised = <<"update">>] @@ Keep
      ELSE [c EXCEPT !.ret = "true", !.updates = <<issueId>>] @@ Keep

setContextIssueIdRun(issueId, o) ==
  LET c == Call("setContextIssueId", <<issueId>>)
  IN  IF ~Truthy(issueId)
        THEN [c EXCEPT !.ret = "false"] @@ Keep
      ELSE IF _storage = Undefined
        THEN [c EXCEPT !.ret = "false", !.raised = <<"update">>] @@ Keep
      ELSE IF o = "throw"
        THEN [c EXCEPT !.ret = "false", !.updates = <<issueId>>,
                       !.raised = <<"update">>] @@ Keep
      ELSE [c EXCEPT !.ret = "true", !.updates = <<issueId>>]
             @@ [Keep EXCEPT !.store = issueId]

setContextIssueId ==
  \E r \in {setContextIssueIdRun(issueId, o) :
               issueId \in IssueIds \cup {Empty, Undefined}, o \in Outcomes} :
    Returned(r)

addContextIssueCommentRun(comment, o) ==
  LET c == Call("addContextIssueComment", <<comment>>)
      issueId == workspaceState
      call == Remote("commentCreate", issueId)
      read == [c EXCEPT !.gets = <<"linearContextIssueId">>]
  IN  IF _client = NoClient
        THEN [c EXCEPT !.ret = "false"] @@ Keep
      ELSE IF ~Truthy(comment)
        THEN [c EXCEPT !.ret = "false"] @@ Keep
      ELSE IF _storage = Undefined
        THEN [c EXCEPT !.ret = "false", !.raised = <<"get">>] @@ Keep
      ELSE IF ~Truthy(issueId)
        THEN [read EXCEPT !.ret = "false"] @@ Keep
      ELSE IF o = "throw"
        THEN [read EXCEPT !.ret = "false", !.remote = <<call>>,
                       !.raised = <<"commentCreate">>] @@ Keep
      ELSE [read EXCEPT !.ret = Bool(o = "success"), !.remote = <<call>>,
                     !.payload = Bool(o = "success")] @@ Keep

\* setContextIssueStatus that does not look at statusPayload.success.
setContextIssueStatusRun_ignoresFlag(status, o) ==
  LET c == Call("setContextIssueStatus", <<status>>)
      issueId == workspaceState
      call == Remote("issueUpdate", issueId)
      read == [c EXCEPT !.gets = <<"linearContextIssueId">>]
  IN  IF _client = NoClient
        THEN [c EXCEPT !.ret = "false"] @@ Keep
      ELSE IF ~Truthy(status)
        THEN [c EXCEPT !.ret = "false"] @@ Keep
      ELSE IF _storage = Undefined
        THEN [c EXCEPT !.ret = "false", !.raised = <<"get">>] @@ Keep
      ELSE IF ~Truthy(issueId)
        THEN [read EXCEPT !.ret = "false"] @@ Keep
      ELSE IF o = "throw"
        THEN [read EXCEPT !.ret = "false", !.remote = <<call>>,
                       !.raised = <<"issueUpdate">>] @@ Keep
      ELSE [read EXCEPT !.ret = "true", !.remote = <<call>>,
                     !.payload = Bool(o = "success")] @@ Keep

setContextIssueStatusRun(status, o) ==
  LET c == Call("setContextIssueStatus", <<status>>)
      issueId == workspaceState
      call == Remote("issueUpdate", issueId)
      read == [c EXCEPT !.gets = <<"linearContextIssueId">>]
  IN  IF _client = NoClient
        THEN [c EXCEPT !.ret = "false"] @@ Keep
      ELSE IF ~Truthy(status)
        THEN [c EXCEPT !.ret = "false"] @@ Keep
      ELSE IF _storage = Undefined
        THEN [c EXCEPT !.ret = "false", !.raised = <<"get">>] @@ Keep
      ELSE IF ~Truthy(issueId)
        THEN [read EXCEPT !.ret = "false"] @@ Keep
      ELSE IF o = "throw"
        THEN [read EXCEPT !.ret = "false", !.remote = <<call>>,
                       !.raised = <<"issueUpdate">>] @@ Keep
      ELSE [read EXCEPT !.ret = Bool(o = "success"), !.remote = <<call>>,
                     !.payload = Bool(o = "success")] @@ Keep

\* createIssue that returns the payload whatever its success flag.
createIssueRun_ignoresFlag(args, o) ==
  LET c == Call("createIssue", args)
      call == Remote("issueCreate", args[1])
  IN  IF _client = NoClient
        THEN [c EXCEPT !.ret = Undefined] @@ Keep
      ELSE IF o = "throw"
        THEN [c EXCEPT !.ret = Undefined, !.remote = <<call>>,
                       !.raised = <<"issueCreate">>] @@ Keep
      ELSE [c EXCEPT !.ret = "IssuePayload", !.remote = <<call>>,
                     !.payload = Bool(o = "success")] @@ Keep

createIssueRun(args, o) ==
  LET c == Call("createIssue", args)
      call == Remote("issueCreate", args[1])
  IN  IF _client = NoClient
        THEN [c EXCEPT !.ret = Undefined] @@ Keep
      ELSE IF o = "throw"
        THEN [c EXCEPT !.ret = Undefined, !.remote = <<call>>,
                       !.raised = <<"issueCreate">>] @@ Keep
      ELSE IF o = "failure"
        THEN [c EXCEPT !.ret = Undefined, !.remote = <<call>>,
                       !.payload = "false"] @@ Keep
      ELSE [c EXCEPT !.ret = "IssuePayload", !.remote = <<call>>,
                     !.payload = "true"] @@ Keep

getContextIssueRun(o) ==
  LET c == Call("getContextIssue", <<>>)
      issueId == workspaceState
      call == Remote("issue", issueId)
      read == [c EXCEPT !.gets = <<"linearContextIssueId">>]
  IN  IF _client = NoClient
        THEN [c EXCEPT !.ret = Undefined] @@ Keep
      ELSE IF _storage = Undefined
        THEN [c EXCEPT !.ret = Undefined, !.raised = <<"get">>] @@ Keep
      ELSE IF ~Truthy(issueId)
        THEN [read EXCEPT !.ret = Undefined] @@ Keep
      ELSE IF o = "throw"
        THEN [read EXCEPT !.ret = Undefined, !.remote = <<call>>,
                       !.raised = <<"issue">>] @@ Keep
      ELSE IF o = "missing"
        THEN [read EXCEPT !.ret = Undefined, !.remote = <<call>>] @@ Keep
      ELSE [read EXCEPT !.ret = Resolve(issueId), !.remote = <<call>>] @@ Keep

DetailFetches == <<"assignee", "creator", "team", "subscribers", "comments">>

\* The five requests of the Promise.all, all issued against the fetched issue.
detailCalls(issueId) ==
  [k \in 1..Len(DetailFetches) |-> Remote(DetailFetches[k], issueId)]

\* The dependent requests that rejected, in the order of the Promise.all.
Rejected(failed) == SelectSeq(DetailFetches, LAMBDA f : f \in failed)

\* `x || undefined`
OrUndefined(x) == IF Truthy(x) THEN x ELSE Undefined

\* `connection?.nodes || []` and `connection?.nodes`
NodesOrEmpty(connection) ==
  IF connection.type = "connection" THEN Array(connection.nodes) ELSE Array(<<>>)
NodesOf(connection) ==
  IF connection.type = "connection" THEN Array(connection.nodes) ELSE NoArray

Reverse(seq) == [k \in 1..Len(seq) |-> seq[Len(seq) + 1 - k]]

\* The detail fetch without the test of the persisted id.
getContextIssueWithDetailsRun_unchecked(o, failed, ans) ==
  LET c == Call("getContextIssueWithDetails", <<>>)
      issueId == workspaceState
      call == Remote("issue", issueId)
      all == <<call>> \o detailCalls(issueId)
      read == [c EXCEPT !.gets = <<"linearContextIssueId">>]
  IN  IF _client = NoClient
        THEN [c EXCEPT !.ret = Null] @@ Keep
      ELSE IF _storage = Undefined
        THEN [c EXCEPT !.ret = Null, !.raised = <<"get">>] @@ Keep
      ELSE IF o = "throw"
        THEN [read EXCEPT !.ret = Null, !.remote = <<call>>, !.raised = <<"issue">>]
               @@ Keep
      ELSE IF o = "missing" \/ ~Truthy(issueId)
        THEN [read EXCEPT !.ret = Null, !.remote = <<call>>] @@ Keep
      ELSE IF failed # {}
        THEN [read EXCEPT !.ret = Null, !.remote = all, !.raised = Rejected(failed)]
               @@ Keep
      ELSE [read EXCEPT !.ret = "bundle", !.remote = all, !.fetched = ans,
                     !.bundle = [issue |-> Resolve(issueId),
                                 assignee |-> OrUndefined(ans.assignee),
                                 creator |-> OrUndefined(ans.creator),
                                 team |-> OrUndefined(ans.team),
                                 subscribers |-> NodesOrEmpty(ans.subscribers),
                                 comments |-> NodesOrEmpty(ans.comments)]] @@ Keep

\* The detail fetch joining with allSettled: a rejected request leaves its
\* field out of the bundle.
getContextIssueWithDetailsRun_partial(o, failed, ans) ==
  LET c == Call("getContextIssueWithDetails", <<>>)
      issueId == workspaceState
      call == Remote("issue", issueId)
      all == <<call>> \o detailCalls(issueId)
      got(f) == IF f \in failed THEN Undefined ELSE OrUndefined(ans[f])
      nodes(f) == IF f \in failed THEN Array(<<>>) ELSE NodesOrEmpty(ans[f])
      read == [c EXCEPT !.gets = <<"linearContextIssueId">>]
  IN  IF _client = NoClient
        THEN [c EXCEPT !.ret = Null] @@ Keep
      ELSE IF _storage = Undefined
        THEN [c EXCEPT !.ret = Null, !.raised = <<"get">>] @@ Keep
      ELSE IF ~Truthy(issueId)
        THEN [read EXCEPT !.ret = Null] @@ Keep
      ELSE IF o = "throw"
        THEN [read EXCEPT !.ret = Null, !.remote = <<call>>, !.raised = <<"issue">>]
               @@ Keep
      ELSE IF o = "missing"
        THEN [read EXCEPT !.ret = Null, !.remote = <<call>>] @@ Keep
      ELSE [read EXCEPT !.ret = "bundle", !.remote = all, !.raised = Rejected(failed),
                     !.fetched = ans,
                     !.bundle = [issue |-> Resolve(issueId),
                                 assignee |-> got("assignee"),
                                 creator |-> got("creator"),
                                 team |-> got("team"),
                                 subscribers |-> nodes("subscribers"),
                                 comments |-> nodes("comments")]] @@ Keep

\* The detail fetch that collects the comments newest first.
getContextIssueWithDetailsRun_reversed(o, failed, ans) ==
  LET c == Call("getContextIssueWithDetails", <<>>)
      issueId == workspaceState
      call == Remote("issue", issueId)
      all == <<call>> \o detailCalls(issueId)
      comments == NodesOrEmpty(ans.comments)
      read == [c EXCEPT !.gets = <<"linearContextIssueId">>]
  IN  IF _client = NoClient
        THEN [c EXCEPT !.ret = Null] @@ Keep
      ELSE IF _storage = Undefined
        THEN [c EXCEPT !.ret = Null, !.raised = <<"get">>] @@ Keep
      ELSE IF ~Truthy(issueId)
        THEN [read EXCEPT !.ret = Null] @@ Keep
      ELSE IF o = "throw"
        THEN [read EXCEPT !.ret = Null, !.remote = <<call>>, !.raised = <<"issue">>]
               @@ Keep
      ELSE IF o = "missing"
        THEN [read EXCEPT !.ret = Null, !.remote = <<call>>] @@ Keep
      ELSE IF failed # {}
        THEN [read EXCEPT !.ret = Null, !.remote = all, !.raised = Rejected(failed)]
               @@ Keep
      ELSE [read EXCEPT !.ret = "bundle", !.remote = all, !.fetched = ans,
                     !.bundle = [issue |-> Resolve(issueId),
                                 assignee |-> OrUndefined(ans.assignee),
                                 creator |-> OrUndefined(ans.creator),
                                 team |-> OrUndefined(ans.team),
                                 subscribers |-> NodesOrEmpty(ans.subscribers),
                                 comments |-> Array(Reverse(comments.nodes))]] @@ Keep

\* o: the outcome of the issue fetch; failed: the dependent requests that
\* reject; ans: what the others resolve to.
getContextIssueWithDetailsRun(o, failed, ans) ==
  LET c == Call("getContextIssueWithDetails", <<>>)
      issueId == workspaceState
      call == Remote("issue", issueId)
      all == <<call>> \o detailCalls(issueId)
      assignee == ans.assignee
      creator == ans.creator
      team == ans.team
      subscribersConnection == ans.subscribers
      commentsConnection == ans.comments
      subscribers == NodesOrEmpty(subscribersConnection)
      comments == NodesOrEmpty(commentsConnection)
      read == [c EXCEPT !.gets = <<"linearContextIssueId">>]
  IN  IF _client = NoClient
        THEN [c EXCEPT !.ret = Null] @@ Keep
      ELSE IF _storage = Undefined
        THEN [c EXCEPT !.ret = Null, !.raised = <<"get">>] @@ Keep
      ELSE IF ~Truthy(issueId)
        THEN [read EXCEPT !.ret = Null] @@ Keep
      ELSE IF o = "throw"
        THEN [read EXCEPT !.ret = Null, !.remote = <<call>>, !.raised = <<"issue">>]
               @@ Keep
      ELSE IF o = "missing"
        THEN [read EXCEPT !.ret = Null, !.remote = <<call>>] @@ Keep
      ELSE IF failed # {}
        THEN [read EXCEPT !.ret = Null, !.remote = all, !.raised = Rejected(failed)]
               @@ Keep
      ELSE [read EXCEPT !.ret = "bundle", !.remote = all, !.fetched = ans,
                     !.bundle = [issue |-> Resolve(issueId),
                                 assignee |-> OrUndefined(assignee),
                                 creator |-> OrUndefined(creator),
                                 team |-> OrUndefined(team),
                                 subscribers |-> subscribers,
                                 comments |-> comments]] @@ Keep

\* part_001 returns what the requests resolved to as it is.
getContextIssueWithDetailsRun_001(o, failed, ans) ==
  LET c == Call("getContextIssueWithDetails", <<>>)
      issueId == workspaceState
      call == Remote("issue", issueId)
      all == <<call>> \o detailCalls(issueId)
      assignee == ans.assignee
      creator == ans.creator
      team == ans.team
      subscribersConnection == ans.subscribers
      commentsConnection == ans.comments
      subscribers == NodesOf(subscribersConnection)
      comments == NodesOf(commentsConnection)
      read == [c EXCEPT !.gets = <<"linearContextIssueId">>]
  IN  IF _client = NoClient
        THEN [c EXCEPT !.ret = Null] @@ Keep
      ELSE IF _storage = Undefined
        THEN [c EXCEPT !.ret = Null, !.raised = <<"get">>] @@ Keep
      ELSE IF ~Truthy(issueId)
        THEN [read EXCEPT !.ret = Null] @@ Keep
      ELSE IF o = "throw"
        THEN [read EXCEPT !.ret = Null, !.remote = <<call>>, !.raised = <<"issue">>]
               @@ Keep
      ELSE IF o = "missing"
        THEN [read EXCEPT !.ret = Null, !.remote = <<call>>] @@ Keep
      ELSE IF failed # {}
        THEN [read EXCEPT !.ret = Null, !.remote = all, !.raised = Rejected(failed)]
               @@ Keep
      ELSE [read EXCEPT !.ret = "bundle", !.remote = all, !.fetched = ans,
                     !.bundle = [issue |-> Resolve(issueId),
                                 assignee |-> assignee,
                                 creator |-> creator,
                                 team |-> team,
                                 subscribers |-> subscribers,
                                 comments |-> comments]] @@ Keep

Comments == {Empty, "LGTM"}
StateIds == {Empty, "state-1"}
NoOptions == <<Undefined, Undefined, Undefined, Undefined, Undefined>>
AllOptions == <<"description", "user-1", "state-1", "3", "2">>
CreateArgs == {<<"Fix bug", "team-1">> \o opt : opt \in {NoOptions, AllOptions}}
Range(seq) == {seq[k] : k \in 1..Len(seq)}

addContextIssueComment ==
  \E r \in {addContextIssueCommentRun(comment, o) :
               comment \in Comments, o \in PayloadOutcomes} :
    Returned(r)

setContextIssueStatus ==
  \E r \in {setContextIssueStatusRun(status, o) :
               status \in StateIds, o \in PayloadOutcomes} :
    Returned(r)

createIssue ==
  \E r \in {createIssueRun(args, o) : args \in CreateArgs, o \in PayloadOutcomes} :
    Returned(r)

getContextIssue ==
  \E r \in {getContextIssueRun(o) : o \in FetchOutcomes} : Returned(r)

CommentIds == {"c" \o ToString(i) : i \in 1..MaxComments}
CommentLists == UNION {[1..n -> CommentIds] : n \in 0..MaxComments}

\* The issue's relations, and the user or team each one resolves to when set.
Relations == {"assignee", "creator", "team"}
Related == [assignee |-> "user-1", creator |-> "user-2", team |-> "team-1"]

\* What the dependent requests resolve to when none rejects: the relations in
\* missing resolve to nothing (undefined or null), subscribers and comments to
\* a connection or to nothing.
Answers(missing, nothing, subscribers, comments) ==
  [assignee |-> IF "assignee" \in missing THEN nothing ELSE Related.assignee,
   creator |-> IF "creator" \in missing THEN nothing ELSE Related.creator,
   team |-> IF "team" \in missing THEN nothing ELSE Related.team,
   subscribers |-> subscribers, comments |-> comments]

\* Every set of missing relations, reported either way, with and without
\* subscribers; and every list of comments, with an assignee and without one.
AllAnswers ==
  {Answers(missing, nothing, subscribers, Connection(<<>>)) :
     missing \in SUBSET Relations, nothing \in {Undefined, Null},
     subscribers \in {NoConnection, Connection(<<"user-1">>)}}
  \cup {Answers(missing, Undefined, Connection(<<>>), comments) :
          missing \in {{}, {"assignee"}},
          comments \in {NoConnection} \cup {Connection(l) : l \in CommentLists}}

\* An issue with no assignee and one comment.
SomeAnswers ==
  {Answers({"assignee"}, Undefined, Connection(<<"user-1">>), Connection(<<"c1">>))}

\* <<o, failed, ans>>: the dependent requests are made only once the issue is
\* found, and what they resolve to is used only when none of them rejects.
DetailEnvOf(failures, answers) ==
  {<<o, {}, NoAnswers>> : o \in FetchOutcomes \ {"found"}}
  \cup {<<"found", failed, NoAnswers>> : failed \in failures \ {{}}}
  \cup {<<"found", {}, ans>> : ans \in answers}

\* Every way the dependent requests can fail and answer.
AnyDetailEnv == DetailEnvOf(SUBSET Range(DetailFetches), AllAnswers)

\* One failure of one request, one of all, and one answer: what the calls
\* around the detail fetch can tell apart.
DetailEnv == DetailEnvOf({{"comments"}, Range(DetailFetches)}, SomeAnswers)

getContextIssueWithDetailsIn(env) ==
  /\ revision = "part_000"
  /\ \E r \in {getContextIssueWithDetailsRun(e[1], e[2], e[3]) : e \in env} :
       Returned(r)

getContextIssueWithDetailsIn_001(env) ==
  /\ revision = "part_001"
  /\ \E r \in {getContextIssueWithDetailsRun_001(e[1], e[2], e[3]) : e \in env} :
       Returned(r)

getContextIssueWithDetails == getContextIssueWithDetailsIn(DetailEnv)

getContextIssueWithDetails_001 == getContextIssueWithDetailsIn_001(DetailEnv)

getContextIssueWithDetailsAny == getContextIssueWithDetailsIn(AnyDetailEnv)

getContextIssueWithDetailsAny_001 == getContextIssueWithDetailsIn_001(AnyDetailEnv)

(* ---------------------------------------------------------------------- *)
(* getContextIssueWithDetails, await by await.  The five dependent         *)
(* requests are all issued when the issue fetch has answered; they settle  *)
(* one by one, in any order.  Promise.all fulfils when the last of them    *)
(* has fulfilled and rejects when the first of them rejects.               *)
(* ---------------------------------------------------------------------- *)

\* A join that waits until every request has settled (Promise.allSettled).
JoinSettled_all(j) == j.inflight = {}

\* Promise.all has settled: one request rejected, or none is left in flight.
JoinSettled(j) == j.rejected # Undefined \/ j.inflight = {}

\* The run of the detail fetch in the loaded revision.
DetailsRun(o, failed, ans) ==
  IF revision = "part_000"
    THEN getContextIssueWithDetailsRun(o, failed, ans)
    ELSE getContextIssueWithDetailsRun_001(o, failed, ans)

\* The function returns the run r with the requests of j still in flight.
detailsReturned(r, j) ==
  /\ Recorded(r, Since(lifecycle), NoCommand)
  /\ join' = [j EXCEPT !.at = "returned", !.left = j.inflight]
  /\ UNCHANGED <<_secretStorage, _storage, pending>>

\* The function stays suspended.
detailsSuspended(j) ==
  /\ join' = j
  /\ UNCHANGED <<revision, _client, _secretStorage, _storage, secrets,
                 workspaceState, providerSession, last, lifecycle, setBefore, cmd,
                 pending>>

\* getContextIssueWithDetails() is called: it returns null at once, or calls
\* _client.issue and is suspended at it.
detailsBegin ==
  /\ activated
  /\ join.at \in {"idle", "returned"}
  /\ join.inflight = {}
  /\ IF _client = NoClient \/ ~Truthy(workspaceState)
       THEN \E r \in {DetailsRun("throw", {}, NoAnswers)} : detailsReturned(r, NoJoin)
       ELSE detailsSuspended([NoJoin EXCEPT !.at = "issue"])

\* _client.issue answers: the function returns null, or issues the five
\* requests and is suspended at the Promise.all.
detailsIssue ==
  /\ join.at = "issue"
  /\ \E o \in FetchOutcomes :
       IF o = "found"
         THEN detailsSuspended([join EXCEPT !.at = "Promise.all",
                                            !.inflight = Range(DetailFetches)])
         ELSE \E r \in {DetailsRun(o, {}, NoAnswers)} : detailsReturned(r, join)

\* One request settles while the function is suspended at the Promise.all;
\* when that settles the Promise.all, the function resumes and returns.
detailsSettle ==
  /\ join.at = "Promise.all"
  /\ \E f \in join.inflight, o \in Outcomes, ans \in SomeAnswers :
       LET first == o = "throw" /\ join.rejected = Undefined
           j == [join EXCEPT !.inflight = @ \ {f},
                             !.rejected = IF first THEN f ELSE @,
                             !.rest = IF first THEN join.inflight \ {f} ELSE @]
       IN  IF JoinSettled(j)
             THEN \E r \in {DetailsRun("found",
                                        IF j.rejected = Undefined
                                          THEN {} ELSE {j.rejected},
                                        ans)} :
                    detailsReturned(r, j)
             ELSE detailsSuspended(j)

\* A request still in flight settles after the function has returned.
detailsSettleLate ==
  /\ join.at = "returned"
  /\ \E f \in join.inflight :
       detailsSuspended([join EXCEPT !.inflight = @ \ {f}])

(* ---------------------------------------------------------------------- *)
(* Command handlers (extension.ts).  activate registers them once init has *)
(* returned.  A call the handler does not await has still run up to its    *)
(* store or remote call when the handler shows its next message.           *)
(* ---------------------------------------------------------------------- *)

Picks == Issues \cup {0}

cmdGetMyIssuesRun(o1, o2, pick, uo) ==
  LET name == "linear.getMyIssues"
      issues == getMyIssuesRun(o1, o2)
  IN  IF issues.ret # "nodes" \/ pick = 0
        THEN issues @@ [cmd |-> Command(name, Undefined, Undefined, "getMyIssues",
                                        issues.ret)]
      ELSE LET r == setContextIssueIdRun(Id(pick), uo)
           IN  r @@ [cmd |-> Command(name, Id(pick),
                                     "Linear context issue is set to "
                                       \o Identifier(pick),
                                     "setContextIssueId", r.ret)]

cmdSetContextIssueRun(identifier, o, uo) ==
  LET name == "linear.setContextIssue"
      selectedIssue == getIssueByIdentifierRun(identifier, o)
  IN  IF ~Truthy(identifier)
        THEN Call("showInputBox", <<>>) @@ Keep
               @@ [cmd |-> Command(name, Undefined, Undefined, Undefined, Undefined)]
      ELSE IF ~Truthy(selectedIssue.ret)
        THEN selectedIssue
               @@ [cmd |-> Command(name, Undefined,
                                   "Linear issue " \o identifier \o " was not found",
                                   "getIssueByIdentifier", selectedIssue.ret)]
      ELSE LET r == setContextIssueIdRun(selectedIssue.ret, uo)
           IN  r @@ [cmd |-> Command(name, selectedIssue.ret,
                                     "Linear context issue is set to " \o identifier,
                                     "setContextIssueId", r.ret)]

cmdSetContextIssueStatusRun(o, status, po) ==
  LET name == "linear.setContextIssueStatus"
      statuses == getWorkflowStatesRun(o)
  IN  IF statuses.ret # "nodes" \/ ~Truthy(status)
        THEN statuses @@ [cmd |-> Command(name, Undefined, "Getting available statuses...",
                                          "getWorkflowStates", statuses.ret)]
      ELSE LET r == setContextIssueStatusRun(status, po)
           IN  r @@ [cmd |-> Command(name, Undefined,
                                     "Linear context issue status is set to " \o status,
                                     "setContextIssueStatus", r.ret)]

Actions == {Undefined, "Set active", "Copy ID", "Copy branch name", "Open in browser"}

\* opt: what the user chose at the optional prompts; i: the issue the remote
\* creates; action: the button chosen on "Issue ... created".
cmdCreateIssueRun(title, o1, o2, opt, co, i, action, po) ==
  LET name == "linear.createIssue"
      myTeams == getMyTeamsRun(o1, o2)
      selectedTeam == IF myTeams.ret = "nodes" THEN "team-1" ELSE Undefined
      issuePayload == createIssueRun(<<title, selectedTeam>> \o opt, co)
  IN  IF ~(Truthy(title) /\ Truthy(selectedTeam))
        THEN myTeams @@ [cmd |-> Command(name, Undefined, "Title cannot be empty",
                                         "getMyTeams", myTeams.ret)]
      ELSE IF issuePayload.ret # "IssuePayload" \/ action # "Set active"
        THEN issuePayload
               @@ [cmd |-> Command(name, Undefined,
                                   IF issuePayload.ret = "IssuePayload"
                                     THEN "Issue " \o Identifier(i) \o " created"
                                     ELSE Undefined,
                                   "createIssue", issuePayload.ret)]
      ELSE LET r == setContextIssueStatusRun(Identifier(i), po)
           IN  r @@ [cmd |-> Command(name, Id(i),
                                     "Set " \o Identifier(i) \o " as active!",
                                     "setContextIssueStatus", r.ret)]

Commanded(r) ==
  /\ activated
  /\ Done(r, Since(lifecycle), r.cmd)
  /\ UNCHANGED <<_secretStorage, _storage>>

cmdGetMyIssues ==
  \E r \in {cmdGetMyIssuesRun(o1, o2, pick, uo) :
                 o1 \in Outcomes, o2 \in Outcomes, pick \in Picks, uo \in Outcomes} :
       Commanded(r)

cmdSetContextIssue ==
  \E r \in {cmdSetContextIssueRun(identifier, o, uo) :
                 identifier \in IssueIdentifiers \cup {Undefined, "NOPE-0"},
                 o \in FetchOutcomes, uo \in Outcomes} :
       Commanded(r)

cmdSetContextIssueStatus ==
  \E r \in {cmdSetContextIssueStatusRun(o, status, po) :
                 o \in Outcomes, status \in {Undefined, "state-1"},
                 po \in PayloadOutcomes} :
       Commanded(r)

\* <<title, o1, o2, opt, co, i, action, po>>, without the combinations that
\* differ only in the answer of a prompt or call that is never reached.
AnyIssue == CHOOSE i \in Issues : TRUE
CreateIssueEnv ==
  {<<title, o1, o2, NoOptions, "throw", AnyIssue, Undefined, "throw">> :
     title \in {Undefined, "Fix bug"}, o1 \in Outcomes, o2 \in Outcomes}
  \cup {<<"Fix bug", "ok", "ok", opt, co, AnyIssue, Undefined, "throw">> :
          opt \in {NoOptions, AllOptions}, co \in PayloadOutcomes}
  \cup {<<"Fix bug", "ok", "ok", opt, "success", i, action, "throw">> :
          opt \in {NoOptions, AllOptions}, i \in Issues, action \in Actions}
  \cup {<<"Fix bug", "ok", "ok", opt, "success", i, "Set active", po>> :
          opt \in {NoOptions, AllOptions}, i \in Issues, po \in PayloadOutcomes}

cmdCreateIssue ==
  \E r \in {cmdCreateIssueRun(e[1], e[2], e[3], e[4], e[5], e[6], e[7], e[8]) :
                 e \in CreateIssueEnv} :
       Commanded(r)

Next ==
  \/ restart
  \/ init
  \/ connect
  \/ connect_001
  \/ disconnect
  \/ disconnect_001
  \/ getMyIssues
  \/ getMyTeams
  \/ getIssueByIdentifier
  \/ setContextIssueId
  \/ addContextIssueComment
  \/ getWorkflowStates
  \/ setContextIssueStatus
  \/ getAvailablePriorities
  \/ getTeamMembers
  \/ createIssue
  \/ getContextIssue
  \/ getContextIssueWithDetails
  \/ getContextIssueWithDetails_001
  \/ cmdGetMyIssues
  \/ cmdSetContextIssue
  \/ cmdSetContextIssueStatus
  \/ cmdCreateIssue

Spec == Init /\ [][Next]_vars

\* The detail fetch under every answer of its dependent requests, in the
\* states that init and setContextIssueId reach.
DetailNext ==
  \/ init
  \/ setContextIssueId
  \/ getContextIssueWithDetailsAny
  \/ getContextIssueWithDetailsAny_001

DetailSpec == Init /\ [][DetailNext]_vars

\* Every run of every exported function of linear.ts but init, in the loaded
\* revision.
ModuleRuns ==
  (IF revision = "part_000"
     THEN {connectRun(e[1], e[2], e[3], e[4], e[5], e[6]) : e \in ConnectEnv}
          \cup {disconnectRun(del, so, msg) :
                  del \in Outcomes, so \in Outcomes, msg \in Outcomes}
          \cup {getContextIssueWithDetailsRun(e[1], e[2], e[3]) : e \in DetailEnv}
     ELSE {connectRun_001(so, tok) : so \in SessionOutcomes, tok \in AccessTokens}
          \cup {disconnectRun_001(del) : del \in Outcomes}
          \cup {getContextIssueWithDetailsRun_001(e[1], e[2], e[3]) : e \in DetailEnv})
  \cup {getMyIssuesRun(o1, o2) : o1 \in Outcomes, o2 \in Outcomes}
  \cup {getMyTeamsRun(o1, o2) : o1 \in Outcomes, o2 \in Outcomes}
  \cup {getIssueByIdentifierRun(identifier, o) :
          identifier \in IssueRefs \cup {"NOPE-0"}, o \in FetchOutcomes}
  \cup {getWorkflowStatesRun(o) : o \in Outcomes}
  \cup {getAvailablePrioritiesRun(o) : o \in Outcomes}
  \cup {getTeamMembersRun(team, o) : team \in Teams, o \in Outcomes}
  \cup {setContextIssueIdRun(issueId, o) :
          issueId \in IssueIds \cup {Empty, Undefined}, o \in Outcomes}
  \cup {addContextIssueCommentRun(comment, o) :
          comment \in Comments, o \in PayloadOutcomes}
  \cup {setContextIssueStatusRun(status, o) :
          status \in StateIds, o \in PayloadOutcomes}
  \cup {createIssueRun(args, o) : args \in CreateArgs, o \in PayloadOutcomes}
  \cup {getContextIssueRun(o) : o \in FetchOutcomes}

\* The history after the run r, as Connected, Disconnected and Returned keep it.
Lifecycle(r) ==
  IF r.op = "connect"
    THEN IF r.ret = "true" THEN "connected" ELSE "none"
  ELSE IF r.op = "disconnect"
    THEN IF lifecycle \in {"connected", "disconnected"} THEN "disconnected" ELSE "none"
  ELSE Since(lifecycle)

\* An exported function called by whoever imports the module, at any time:
\* also before init has injected _secretStorage and _storage.
call ==
  \E r \in ModuleRuns :
    /\ Done(r, Lifecycle(r), NoCommand)
    /\ UNCHANGED <<_secretStorage, _storage>>

ModuleNext ==
  \/ restart
  \/ init
  \/ call

ModuleSpec == Init /\ [][ModuleNext]_vars

\* connect() followed await by await, with disconnect() calls running to
\* completion before it, after it and while it is suspended.
RaceNext ==
  \/ init
  \/ connectBegin
  \/ connectResume
  \/ connectReturn
  \/ disconnect
  \/ disconnect_001

RaceSpec == Init /\ [][RaceNext]_vars

\* getContextIssueWithDetails() followed await by await.
JoinNext ==
  \/ init
  \/ detailsBegin
  \/ detailsIssue
  \/ detailsSettle
  \/ detailsSettleLate

JoinSpec == Init /\ [][JoinNext]_vars

(* ---------------------------------------------------------------------- *)
(* Properties                                                              *)
(* ---------------------------------------------------------------------- *)

SessionOps ==
  {"getMyIssues", "getMyTeams", "getWorkflowStates", "getAvailablePriorities",
   "getTeamMembers", "getIssueByIdentifier", "getContextIssue",
   "getContextIssueWithDetails", "addContextIssueComment", "setContextIssueStatus",
   "createIssue"}

\* The value each session-requiring function returns for "not connected".
NotConnectedValue(op) ==
  IF op \in {"addContextIssueComment", "setContextIssueStatus"} THEN "false"
  ELSE IF op \in {"createIssue", "getContextIssue"} THEN Undefined
  ELSE Null

NotAuthenticated(l) == l.ret = NotConnectedValue(l.op) /\ l.remote = <<>>

\* C1: a session-requiring function called while _client is null returns its
\* absent/false value and makes no remote call, whatever its arguments.
NoClientNoRemoteCall ==
  (last.op \in SessionOps /\ last.pre = NoClient) => NotAuthenticated(last)

NoClientCreateIssue ==
  /\ last.op = "createIssue"
  /\ last.pre = NoClient
  /\ last.arg[1] = "Fix bug"
  /\ last.ret = Undefined

\* C2 (as claimed): once connect() has returned true and disconnect() has then
\* been called, every session-requiring call returns the not-connected result
\* and makes no remote call, whatever the outcome of deleting the stored key.
DisconnectedThenNotAuthenticated ==
  (lifecycle = "disconnected" /\ last.op \in SessionOps) => NotAuthenticated(last)

\* C3 (as claimed): when disconnect() has returned, _client is null, also when
\* deleting the stored API key raised.
DisconnectClearsClient ==
  last.op = "disconnect" => _client = NoClient

\* C4: disconnect() returns false exactly when deleting the stored API key
\* raises, and true otherwise, also when the session lookup or the
\* informational message fails.
DisconnectFalseIffDeleteRaises ==
  last.op = "disconnect" =>
    /\ last.ret \in {"true", "false"}
    /\ last.ret = "false" <=> "delete" \in Range(last.raised)

DisconnectTrueThoughLookupFailed ==
  /\ last.op = "disconnect"
  /\ last.raised = <<"getSession">>
  /\ last.ret = "true"

\* C5: setContextIssueId("") and setContextIssueId(undefined) return false,
\* make no call of the key/value store and leave the persisted id as it was.
EmptyIdRejected ==
  /\ [](last.op = "setContextIssueId" =>
          (~Truthy(last.arg[1]) => last.ret = "false" /\ last.updates = <<>>))
  /\ [][(last'.op = "setContextIssueId" /\ ~Truthy(last'.arg[1]))
          => workspaceState' = workspaceState]_vars

EmptyIdAfterPersistedId ==
  /\ last.op = "setContextIssueId"
  /\ last.arg = <<Empty>>
  /\ last.ret = "false"
  /\ workspaceState \in IssueIds

\* C6 (as claimed): after setContextIssueId(id) has returned true, the
\* getContextIssue() that follows it at once attempts the remote issue fetch
\* exactly once, with that id.
FetchAfterSet ==
  (last.op = "getContextIssue" /\ setBefore # Undefined)
    => last.remote = <<Remote("issue", setBefore)>>

\* C6 (amended): the same, provided a client handle is established when
\* getContextIssue() is called; with no client it makes no fetch at all.
FetchAfterSetWhenConnected ==
  (last.op = "getContextIssue" /\ setBefore # Undefined) =>
    last.remote = IF last.pre # NoClient THEN <<Remote("issue", setBefore)>> ELSE <<>>

FetchedWhatWasJustSet ==
  /\ last.op = "getContextIssue"
  /\ setBefore \in IssueIds
  /\ last.pre # NoClient
  /\ last.remote = <<Remote("issue", setBefore)>>

\* C7: the persisted context issue id changes only in a setContextIssueId that
\* returns true, and then to its argument; init, connect, disconnect, the
\* reads, addContextIssueComment, setContextIssueStatus and createIssue leave it.
ContextIdOnlySetBySetter ==
  [][workspaceState' # workspaceState =>
       /\ last'.op = "setContextIssueId"
       /\ last'.ret = "true"
       /\ workspaceState' = last'.arg[1]]_vars

ContextIdKeptByDisconnect ==
  /\ last.op = "disconnect"
  /\ last.ret = "true"
  /\ last.pre # NoClient
  /\ workspaceState \in IssueIds

\* C8 (as claimed): when a command handler has let the user select an issue
\* (get-my-issues, set-context-issue) or choose "Set active" on a created issue
\* (create-issue), and no call raised, the persisted context issue id is that
\* issue's id.
SelectedIssueBecomesContext ==
  (cmd.chosen # Undefined /\ last.raised = <<>>) => workspaceState = cmd.chosen

\* C9: init prefers an existing OAuth session to a stored API key: with a
\* session the client is built from its access token and the secret store is
\* not read; the secret store is read only when there is no session.
InitPrefersOAuth ==
  last.op = "init" =>
    /\ (Truthy(providerSession) /\ last.raised = <<>>) =>
         /\ _client = AccessTokenClient(providerSession)
         /\ last.secret = <<>>
         /\ last.ret = "true"
    /\ last.secret # <<>> => ~Truthy(providerSession)
    /\ (~Truthy(providerSession) /\ Truthy(secrets) /\ last.raised = <<>>) =>
         /\ _client = ApiKeyClient(secrets)
         /\ last.ret = "true"

InitWithSessionAndKey ==
  /\ last.op = "init"
  /\ Truthy(providerSession)
  /\ Truthy(secrets)
  /\ _client = AccessTokenClient(providerSession)

\* C10: init only asks for an existing session (createIfNone: false), shows no
\* prompt and lets no exception out; started with no client, it returns true
\* exactly when a client is established afterwards, false with no client otherwise.
InitSilentAndTotal ==
  last.op = "init" =>
    /\ last.sessions = <<"createIfNone:false">>
    /\ last.ui = <<>>
    /\ ~last.escaped
    /\ last.ret \in {"true", "false"}
    /\ last.pre = NoClient => (last.ret = "true" <=> _client # NoClient)

InitFromStoredKey ==
  /\ last.op = "init"
  /\ last.pre = NoClient
  /\ last.ret = "true"
  /\ _client = ApiKeyClient(secrets)

\* C11 (as claimed): an init that follows a restart establishes a client only
\* when the authentication provider still holds an OAuth session.
RestartRestoresOnlyOAuth ==
  (lifecycle = "restarted" /\ last.op = "init" /\ _client # NoClient)
    => Truthy(providerSession)

\* C11 (amended): an init that follows a restart establishes a client only from
\* what persisted: from the provider's OAuth session when there is one, else
\* from the API key in the secret store; with neither there is no client.
RestartRestoresFromPersisted ==
  (lifecycle = "restarted" /\ last.op = "init" /\ _client # NoClient) =>
    IF Truthy(providerSession)
      THEN _client = AccessTokenClient(providerSession)
      ELSE Truthy(secrets) /\ _client = ApiKeyClient(secrets)

RestartRestoredFromStoredKey ==
  /\ lifecycle = "restarted"
  /\ last.op = "init"
  /\ ~Truthy(providerSession)
  /\ _client = ApiKeyClient(secrets)
\* C12: on the manual API-key path of connect(), the key entered is validated
\* by exactly one authenticated call (viewer) before the secret store is
\* touched; the store is written only when that call succeeded, and then with
\* that key; when the prompt is dismissed or the validation fails, the secret
\* store is neither called nor changed and connect() returns false.
KeyValidatedBeforeStored ==
  /\ []((last.op = "connect" /\ "showInputBox" \in Range(last.ui)) =>
          /\ Len(last.remote) <= 1
          /\ last.secret # <<>> =>
               /\ Len(last.remote) = 1
               /\ last.remote[1].m = "viewer"
               /\ "viewer" \notin Range(last.raised)
          /\ (last.remote = <<>> \/ "viewer" \in Range(last.raised)) =>
               /\ last.secret = <<>>
               /\ last.ret = "false")
  /\ [][(last'.op = "connect" /\ secrets' # secrets) =>
          /\ last'.remote = <<Remote("viewer", secrets')>>
          /\ last'.raised = <<>>
          /\ last'.secret = <<"store">>
          /\ last'.ret = "true"]_vars

KeyRejectedKeepsStoredKey ==
  /\ last.op = "connect"
  /\ last.raised = <<"viewer">>
  /\ last.ret = "false"
  /\ last.secret = <<>>
  /\ Len(last.remote) = 1
  /\ Truthy(secrets)
  /\ last.remote[1].a # secrets

\* C13 (as claimed): whenever connect() has returned false, no client handle
\* is established.
ConnectFalseNoClient ==
  (last.op = "connect" /\ last.ret = "false") => _client = NoClient

\* C13 (amended): whenever connect() has returned false (a prompt dismissed,
\* no session obtained, the key rejected, an exception), the call has
\* established no client handle: the handle is what it was before the call, so
\* a connect() started with no client leaves no client.
ConnectFalseEstablishesNothing ==
  (last.op = "connect" /\ last.ret = "false") => _client = last.pre

ConnectFailedStoreNoClient ==
  /\ last.op = "connect"
  /\ last.ret = "false"
  /\ last.raised = <<"store">>
  /\ last.pre = NoClient
  /\ _client = NoClient

\* C14 (as claimed): connect() offers the choice of the two strategies, and a
\* connect() that returns true has established the client handle.
ConnectOffersTwoStrategies ==
  last.op = "connect" =>
    /\ last.ui # <<>> /\ last.ui[1] = "showQuickPick"
    /\ last.ret = "true" => _client # NoClient

\* C14 (amended): the revision with the API-key path (part_000) offers the
\* choice of OAuth and manual API key, the OAuth-only revision (part_001)
\* offers no choice; in both, a connect() that returns true has established
\* the client handle, from the provider's session or from the key it stored.
ConnectSuccessEstablishesClient ==
  last.op = "connect" =>
    /\ revision = "part_000" => (last.ui # <<>> /\ last.ui[1] = "showQuickPick")
    /\ revision = "part_001" => "showQuickPick" \notin Range(last.ui)
    /\ last.ret = "true" =>
         \/ _client = AccessTokenClient(providerSession) /\ last.sessions # <<>>
         \/ _client = ApiKeyClient(secrets) /\ last.secret = <<"store">>

ConnectedByApiKey ==
  /\ last.op = "connect"
  /\ last.ret = "true"
  /\ last.ui = <<"showQuickPick", "showInputBox">>
  /\ _client = ApiKeyClient(secrets)

\* C15: a connect() that succeeds by OAuth leaves the stored API key as it
\* was, a connect() that succeeds by API key leaves the provider's OAuth
\* session as it was, and the client handle is always a single value: none,
\* one access-token client or one API-key client.
ConnectKeepsOtherCredential ==
  /\ [](_client \in {NoClient} \cup {AccessTokenClient(t) : t \in AccessTokens}
                      \cup {ApiKeyClient(k) : k \in ApiKeys})
  /\ [][(last'.op = "connect" /\ last'.ret = "true") =>
          /\ _client'.auth = "accessToken" =>
               (secrets' = secrets /\ last'.secret = <<>>)
          /\ _client'.auth = "apiKey" =>
               (providerSession' = providerSession /\ last'.sessions = <<>>)]_vars

OAuthConnectedWithStoredKey ==
  /\ last.op = "connect"
  /\ last.ret = "true"
  /\ _client = AccessTokenClient(providerSession)
  /\ Truthy(secrets)
\* C16: getContextIssueWithDetails() called while the persisted context issue
\* id is unset returns null and makes no remote call, with a client handle or
\* without one.
DetailsWithoutContextId ==
  (last.op = "getContextIssueWithDetails" /\ ~Truthy(workspaceState)) =>
    /\ last.ret = Null
    /\ last.remote = <<>>
    /\ last.bundle = NoBundle

DetailsConnectedNoContextId ==
  /\ last.op = "getContextIssueWithDetails"
  /\ last.pre # NoClient
  /\ workspaceState = Undefined
  /\ last.ret = Null

\* C17: when the issue fetch of getContextIssueWithDetails() succeeded and at
\* least one of the five dependent requests rejected, the result is null and
\* no bundle, partial or whole, is returned.
DetailsAllOrNothing ==
  (/\ last.op = "getContextIssueWithDetails"
   /\ Range(last.raised) \cap Range(DetailFetches) # {}) =>
    /\ last.ret = Null
    /\ last.bundle = NoBundle

DetailsCommentsFetchFailed ==
  /\ last.op = "getContextIssueWithDetails"
  /\ last.raised = <<"comments">>
  /\ Len(last.remote) = 1 + Len(DetailFetches)
  /\ last.ret = Null

\* C18: when every fetch of getContextIssueWithDetails() succeeded, a relation
\* (assignee, creator, team) that resolved to nothing is an absent field of
\* the bundle, a relation that resolved is that field's value, and the
\* bundle's comments are the nodes of the fetched comments connection in their
\* order, for every list of up to MaxComments comments.
DetailsBundleMatchesFetched ==
  (last.op = "getContextIssueWithDetails" /\ last.ret = "bundle") =>
    /\ last.raised = <<>>
    /\ last.bundle.issue = workspaceState
    /\ \A f \in Relations :
         IF Truthy(last.fetched[f])
           THEN last.bundle[f] = last.fetched[f]
           ELSE ~Truthy(last.bundle[f])
    /\ last.fetched.comments.type = "connection" =>
         last.bundle.comments = Array(last.fetched.comments.nodes)

DetailsNoAssigneeTwoComments ==
  /\ last.op = "getContextIssueWithDetails"
  /\ last.ret = "bundle"
  /\ last.fetched.assignee = Undefined
  /\ last.bundle.assignee = Undefined
  /\ last.bundle.creator = "user-2"
  /\ last.bundle.comments = Array(<<"c2", "c1">>)
\* C19: addContextIssueComment(text) and setContextIssueStatus(stateId) return
\* false without a remote call when there is no client, when the argument is
\* empty or when no context issue id is persisted, tested in that order (the
\* store is read only once the first two tests passed) and all before the
\* remote is reached; otherwise they make exactly one remote call
\* (commentCreate, issueUpdate) against the persisted context issue id and
\* return the payload's success flag, false when the call raised.
ContextMutationsValidateThenCall ==
  last.op \in {"addContextIssueComment", "setContextIssueStatus"} =>
    IF last.pre = NoClient \/ ~Truthy(last.arg[1]) \/ ~Truthy(workspaceState)
      THEN /\ last.ret = "false" /\ last.remote = <<>> /\ last.payload = Undefined
           /\ last.gets = IF last.pre = NoClient \/ ~Truthy(last.arg[1])
                            THEN <<>> ELSE <<"linearContextIssueId">>
      ELSE /\ last.gets = <<"linearContextIssueId">>
           /\ last.remote =
                <<Remote(IF last.op = "addContextIssueComment"
                           THEN "commentCreate" ELSE "issueUpdate",
                         workspaceState)>>
           /\ last.ret = IF last.raised # <<>> THEN "false" ELSE last.payload
           /\ last.raised = <<>> <=> last.payload \in {"true", "false"}

StatusUpdateReportedFailure ==
  /\ last.op = "setContextIssueStatus"
  /\ last.remote = <<Remote("issueUpdate", workspaceState)>>
  /\ last.payload = "false"
  /\ last.ret = "false"

\* C20: createIssue called with a client handle makes exactly one issueCreate
\* call; it returns the payload exactly when the remote answered with success,
\* and undefined when the remote answered with failure or the call raised.
CreateIssueReturnsPayloadOnSuccess ==
  (last.op = "createIssue" /\ last.pre # NoClient) =>
    /\ last.remote = <<Remote("issueCreate", last.arg[1])>>
    /\ last.ret = "IssuePayload" <=> last.payload = "true"
    /\ last.ret # "IssuePayload" =>
         /\ last.ret = Undefined
         /\ last.payload = "false" \/ last.raised = <<"issueCreate">>

CreateIssueRemoteFailure ==
  /\ last.op = "createIssue"
  /\ last.arg = <<"Fix bug", "team-1">> \o NoOptions
  /\ last.payload = "false"
  /\ last.ret = Undefined
\* The values of each exported function's declared return type.
Declared(op) ==
  IF op \in {"init", "connect", "disconnect", "setContextIssueId",
             "addContextIssueComment", "setContextIssueStatus"}
    THEN {"true", "false"}
  ELSE IF op \in {"getMyIssues", "getMyTeams", "getWorkflowStates", "getTeamMembers"}
    THEN {"nodes", Null}
  ELSE IF op = "getAvailablePriorities" THEN {"values", Null}
  ELSE IF op = "getIssueByIdentifier" THEN IssueIds \cup {Null}
  ELSE IF op = "createIssue" THEN {"IssuePayload", Undefined}
  ELSE IF op = "getContextIssue" THEN IssueIds \cup {Undefined}
  ELSE IF op = "getContextIssueWithDetails" THEN {"bundle", Null}
  ELSE {}

\* C21: every call of an exported function of the module completes with a
\* value of its declared return type and lets no exception out, in every
\* state: before init has injected the storage handles as well as after it,
\* and whichever remote, prompt or storage call raised.
NoFaultEscapes ==
  last.op # "load" => (~last.escaped /\ last.ret \in Declared(last.op))

UpdateBeforeInitCaught ==
  /\ last.op = "setContextIssueId"
  /\ _storage = Undefined
  /\ last.raised = <<"update">>
  /\ last.ret = "false"
\* C22: connect() and disconnect() do not exclude each other: a connect()
\* completes as its own awaits answered, whatever a disconnect() did while it
\* was suspended; it returns true and establishes the client handle when its
\* session request, or its key validation and key store, succeeded, also when
\* a disconnect() returned true in between.
ConnectIgnoresDisconnectMeanwhile ==
  (pending.at = "returned" /\ last.op = "connect") =>
    LET succeeded == \/ pending.so = "session"
                     \/ pending.viewer = "ok" /\ pending.store = "ok"
    IN  /\ last.ret = Bool(succeeded)
        /\ succeeded =>
             \/ _client = AccessTokenClient(providerSession)
             \/ _client = ApiKeyClient(secrets)

ConnectedThoughDisconnectedMeanwhile ==
  /\ pending.at = "returned"
  /\ pending.during = "true"
  /\ last.op = "connect"
  /\ last.ret = "true"
  /\ _client # NoClient
\* C23 (as claimed): getContextIssueWithDetails() returns, with a bundle or
\* with null, only when none of its dependent requests is still in flight.
DetailsReturnAfterAllSettled ==
  (join.at = "returned" /\ last.op = "getContextIssueWithDetails") => join.left = {}

\* C23 (amended): the five dependent requests are issued together and the
\* function stays suspended while all that settled have fulfilled and some are
\* in flight; it returns a bundle only when all five have fulfilled, and it
\* returns null as soon as the first of them rejects, with the requests that
\* were in flight at that moment still in flight.
DetailsReturnAtFirstRejection ==
  /\ join.at = "Promise.all" =>
       (join.rejected = Undefined /\ join.inflight # {})
  /\ (/\ join.at = "returned"
      /\ last.op = "getContextIssueWithDetails"
      /\ Len(last.remote) > 1) =>
       /\ Len(last.remote) = 1 + Len(DetailFetches)
       /\ IF join.rejected = Undefined
            THEN last.ret = "bundle" /\ join.left = {}
            ELSE /\ last.ret = Null
                 /\ last.raised = <<join.rejected>>
                 /\ join.left = join.rest

DetailsReturnedWithRequestsInFlight ==
  /\ join.at = "returned"
  /\ last.op = "getContextIssueWithDetails"
  /\ last.ret = Null
  /\ join.rejected = "assignee"
  /\ join.left = {"comments", "subscribers"}

\* C24: whenever the active client handle was built from an API key, the secret
\* store holds that same key under "apiKey"; a connect() whose store of the key
\* failed returns false and leaves the client handle as it was before the call,
\* and a connect() that adopted an API-key client has stored that key first.
ApiKeyClientHasStoredKey ==
  /\ _client.auth = "apiKey" => secrets = _client.cred
  /\ (last.op = "connect" /\ "store" \in Range(last.raised)) =>
       (last.ret = "false" /\ _client = last.pre)
  /\ (last.op = "connect" /\ last.ret = "true" /\ _client.auth = "apiKey") =>
       (last.secret = <<"store">> /\ last.raised = <<>>)

ConnectFailedStoreKeepsEarlierKey ==
  /\ last.op = "connect"
  /\ last.raised = <<"store">>
  /\ last.ret = "false"
  /\ _client.auth = "apiKey"
  /\ _client = last.pre
  /\ secrets = _client.cred
  /\ last.remote[1].a # secrets

\* C25: a connect() that returns false changes nothing: across the call the
\* client handle and the stored API key are what they were before it.
ConnectFalseChangesNothing ==
  [][(last'.op = "connect" /\ last'.ret = "false") =>
       (_client' = _client /\ secrets' = secrets)]_vars

ConnectDismissedKeepsClientAndKey ==
  /\ last.op = "connect"
  /\ last.ret = "false"
  /\ last.ui = <<"showQuickPick">>
  /\ last.raised = <<>>
  /\ last.pre # NoClient
  /\ _client = last.pre
  /\ Truthy(secrets)

\* The messages with which the command handlers report that the context issue
\* or its status is set.
SuccessMessages ==
  {"Linear context issue is set to " \o id :
     id \in IssueIdentifiers}
  \cup {"Linear context issue status is set to " \o s : s \in StateIds}

\* C26: a command handler shows "Linear context issue is set to ..." or
\* "Linear context issue status is set to ..." only when setContextIssueId,
\* respectively setContextIssueStatus, has returned true.
SuccessMessageOnlyAfterSuccess ==
  cmd.message \in SuccessMessages =>
    (cmd.called \in {"setContextIssueId", "setContextIssueStatus"} /\ cmd.ret = "true")

====
